---- MODULE Spec2Model ----
(***************************************************************************)
(* State-machine model of npm-check-updates' entry point (src/src/index.ts):*)
(* run, initOptions, findPackage, runLocal, runGlobal, runUpgrades and the  *)
(* global timeout.  Promises are modelled by their settlement state; the    *)
(* event loop by positions (pc) that are either synchronous continuations   *)
(* or I/O waits, and only at an I/O wait may the timeout timer fire.        *)
(* Doctor mode (./doctor.js) and the per-directory .ncurc of deep mode are  *)
(* left unset: options.doctor is falsy and getNcurc finds no config.  The   *)
(* options interactive, peer and format, which only add prompts and lookups *)
(* for the printed table, are unset in the runs (initOptions is modelled    *)
(* over interactive as well).                                               *)
(***************************************************************************)
EXTENDS Integers, Sequences, FiniteSets, TLC

VARIABLES
    input,            \* the options object handed to initOptions (index.ts:430)
    options,          \* the resolved options object (result of initOptions, later mutated)
    proc,             \* the node process: "running", "exited" (process.exit), "crashed"
    pc,               \* position of run / runUpgrades / runLocal
    timer,            \* the global timeout timer: "unset", "armed", "fired", "cleared"
    upgradesPromise,  \* promise returned by runUpgrades()
    runPromise,       \* promise returned by run() (the Promise.race)
    unhandled,        \* a rejected promise nobody handles, pending 'unhandledRejection'
    pkgs,             \* result of globby.sync in runUpgrades
    idx,              \* deep mode: index in pkgs of the reducer that is running
    analysis,         \* deep mode: the accumulated result object, as an ordered list of entries
    local,            \* locals of the runLocal invocation in progress
    inLocal,          \* number of runLocal invocations in progress
    started,          \* deep mode: package files whose processing has started, in order
    reads,            \* package files read from disk, in order
    fetches,          \* number of vm.getInstalledPackages / vm.upgradePackageDefinitions calls begun
    writes,           \* package file writes started, in order
    errors,           \* fatal errors surfaced (rejection of run, process exit, crash), in order
    printed,          \* upgrade mappings printed, in order
    pool              \* the metadata fetcher pool of one resolution run

vars == <<input, options, proc, pc, timer, upgradesPromise, runPromise, unhandled,
          pkgs, idx, analysis, local, inLocal, started, reads, fetches, writes,
          errors, printed, pool>>

\* ------------------------------------------------------------------------
\* Bounds of the model
\* ------------------------------------------------------------------------
MaxPkgs == 2      \* package files globby can return
MaxDeps == 2      \* dependencies declared in one package file
MaxNames == 4     \* package names requested from the fetcher pool
MaxLimit == 2     \* largest concurrency limit tried

\* ------------------------------------------------------------------------
\* JavaScript values
\* ------------------------------------------------------------------------
Undefined == "undefined"
Null == "null"

\* values an option such as pre or upgrade can be given
JsValues == {"undefined", "null", "false", "true", "0", "1"}

\* JavaScript truthiness (the !! operator) of an option value
Truthy(v) == v \in {"true", "1"}

\* v != null (loose inequality: false only for null and undefined)
NotNullish(v) == v \notin {"undefined", "null"}

JsBool(b) == IF b THEN "true" ELSE "false"

\* ------------------------------------------------------------------------
\* Target policies
\* ------------------------------------------------------------------------
PolicySet == {"latest", "newest", "greatest", "minor", "patch", "semver-range-preserving"}

\* error messages
ErrTargetGreatest == "Cannot specify both --target and --greatest"
ErrTargetNewest == "Cannot specify both --target and --newest"
ErrGreatestNewest == "Cannot specify both --greatest and --newest"
ErrFilterArgs == "Cannot specify a filter using both --filter and args"
ErrFileDeep == "Cannot specify both --packageFile and --deep"
ErrTimeout == "Exceeded global timeout"
ErrNoPackage == "No package.json"
ErrInvalidPackage == "Invalid package file"
ErrNotUpToDate == "Dependencies not up-to-date"
ErrIO == "I/O error"

ErrExit == "exit code 1"
NoError == "none"

PolicyErrors == {ErrTargetGreatest, ErrTargetNewest, ErrGreatestNewest}

\* ------------------------------------------------------------------------
\* Package file paths
\* ------------------------------------------------------------------------
NoFile == <<"null", 0>>           \* pkgFile = null
OptionFile == <<"option", 0>>     \* the value of options.packageFile (a path or a glob pattern)
FoundFile == <<"findUp", 0>>      \* what findUp.sync(pkgFileName) found
GlobFile(i) == <<"glob", i>>      \* the i-th file of the file system that globby can return

\* InitError without the test of greatest together with newest
InitErrorNoGreatestNewest(o) ==
    IF o.target # Undefined /\ o.greatest THEN ErrTargetGreatest
    ELSE IF o.target # Undefined /\ o.newest THEN ErrTargetNewest
    ELSE IF o.filterMismatch THEN ErrFilterArgs
    ELSE IF o.packageFile # NoFile /\ o.deep THEN ErrFileDeep
    ELSE NoError

\* the if / else-if chain of initOptions: the programError it raises, if any
InitError(o) ==
    IF o.target # Undefined /\ o.greatest THEN ErrTargetGreatest
    ELSE IF o.target # Undefined /\ o.newest THEN ErrTargetNewest
    ELSE IF o.greatest /\ o.newest THEN ErrGreatestNewest
    ELSE IF o.filterMismatch THEN ErrFilterArgs
    ELSE IF o.packageFile # NoFile /\ o.deep THEN ErrFileDeep
    ELSE NoError

\* ResolveTarget with the precedence disturbed: greatest first, semverLevel before target
ResolveTargetGreatestFirst(o) ==
    IF o.greatest THEN "greatest"
    ELSE IF o.newest THEN "newest"
    ELSE IF o.semverLevel # Undefined THEN o.semverLevel
    ELSE IF o.target # Undefined THEN o.target
    ELSE "latest"

\* const target = options.newest ? 'newest' : options.greatest ? 'greatest'
\*   : options.target || options.semverLevel || 'latest'
ResolveTarget(o) ==
    IF o.newest THEN "newest"
    ELSE IF o.greatest THEN "greatest"
    ELSE IF o.target # Undefined THEN o.target
    ELSE IF o.semverLevel # Undefined THEN o.semverLevel
    ELSE "latest"

\* const autoPre = target === 'newest' || target === 'greatest'
AutoPre(target) == target \in {"newest", "greatest"}

\* ResolvePre where autoPre overrides what the caller gave
ResolvePreAutoWins(pre, autoPre) ==
    IF NotNullish(pre) \/ autoPre
    THEN JsBool(autoPre \/ Truthy(pre))
    ELSE pre

\* ...options.pre != null || autoPre ? { pre: options.pre != null ? !!options.pre : autoPre } : null
ResolvePre(pre, autoPre) ==
    IF NotNullish(pre) \/ autoPre
    THEN (IF NotNullish(pre) THEN JsBool(Truthy(pre)) ELSE JsBool(autoPre))
    ELSE pre

\* any option whose key starts with 'json' is set
Json(o) == o.jsonAll \/ o.jsonDeps \/ o.jsonUpgraded

\* ...options.interactive && options.upgrade === undefined ? { upgrade: !json } : null
ResolveUpgrade(o) ==
    IF o.interactive /\ o.upgrade = Undefined THEN JsBool(~Json(o)) ELSE o.upgrade

\* the object initOptions returns when it raises no error
InitOptions(o) ==
    [o EXCEPT !.packageFile = IF o.deep THEN OptionFile ELSE o.packageFile,
              !.target = ResolveTarget(o),
              !.pre = ResolvePre(o.pre, AutoPre(ResolveTarget(o))),
              !.upgrade = ResolveUpgrade(o),
              !.json = Json(o)]

\* ------------------------------------------------------------------------
\* Option inputs
\* ------------------------------------------------------------------------
\* target strings a caller can pass: the policies and a string that is none
TargetInputs == {Undefined, "latest", "newest", "greatest", "minor", "patch", "bogus"}
SemverLevelInputs == {Undefined, "major", "minor"}

BaseInput ==
    [cli |-> FALSE, target |-> Undefined, greatest |-> FALSE, newest |-> FALSE,
     semverLevel |-> Undefined, pre |-> Undefined, filterMismatch |-> FALSE,
     packageFile |-> NoFile, deep |-> FALSE, packageData |-> FALSE,
     global |-> FALSE, timeout |-> FALSE, upgrade |-> Undefined,
     interactive |-> FALSE, errorLevel |-> 1, minimal |-> FALSE,
     jsonAll |-> FALSE, jsonDeps |-> FALSE, jsonUpgraded |-> FALSE, json |-> FALSE]

\* ------------------------------------------------------------------------
\* Versions, ranges and the version manager (./versionmanager)
\* ------------------------------------------------------------------------
Deps == 1..MaxDeps
\* versions <<major, minor>> a registry can hold
Versions == {<<1, 0>>, <<1, 1>>, <<2, 0>>}
RangeOps == {"=", "^"}
Ranges == [op : RangeOps, v : Versions]

VersionLeq(a, b) == a[1] < b[1] \/ (a[1] = b[1] /\ a[2] <= b[2])

\* the declared range admits the version
Admits(range, version) ==
    IF range.op = "=" THEN version = range.v
    ELSE version[1] = range.v[1] /\ VersionLeq(range.v, version)

\* vm.isSatisfied(latest, declared): the declared range already admits the candidate
IsSatisfied(latestVersion, declared) == Admits(declared, latestVersion)

\* the candidate written in the operator style of the declared range
Rewrite(declared, version) == [op |-> declared.op, v |-> version]

\* restriction of a mapping to some of its keys
Restrict(f, keys) == [k \in keys |-> f[k]]

\* vm.upgradePackageDefinitions: [upgraded, latest]; upgraded holds the names whose
\* rewritten range differs from the declared range
UpgradePackageDefinitions(current, latest) ==
    LET names == {d \in DOMAIN latest : d \in DOMAIN current
                                        /\ Rewrite(current[d], latest[d]) # current[d]}
    IN [d \in names |-> Rewrite(current[d], latest[d])]

\* vm.upgradePackageData: { newPkgData, selectedNewDependencies }; in minimal mode
\* only the unsatisfied dependencies are selected
UpgradePackageData(current, upgraded, latest, o) ==
    LET names == {d \in DOMAIN upgraded :
                     ~o.minimal \/ ~IsSatisfied(latest[d], current[d])}
        selected == Restrict(upgraded, names)
    IN [selectedNewDependencies |-> selected,
        newPkgData |-> [d \in DOMAIN current |->
                          IF d \in names THEN selected[d] ELSE current[d]]]

\* ------------------------------------------------------------------------
\* runLocal: the synchronous computation between the awaits
\* ------------------------------------------------------------------------
\* const output = options.jsonAll ? parse(newPkgData) : options.jsonDeps ? pick(...) : selectedNewDependencies
Output(o, data) ==
    IF o.jsonAll THEN [kind |-> "jsonAll", deps |-> data.newPkgData]
    ELSE IF o.jsonDeps THEN [kind |-> "jsonDeps", deps |-> data.newPkgData]
    ELSE [kind |-> "upgraded", deps |-> data.selectedNewDependencies]

\* FilteredUpgraded with the negation of the filter lost
FilteredUpgradedKeepSatisfied(minimal, selected, latest, current) ==
    IF minimal
    THEN Restrict(selected, {d \in DOMAIN selected : IsSatisfied(latest[d], current[d])})
    ELSE selected

\* const filteredUpgraded = options.minimal ? filterObject(selected, dep => !isSatisfied(dep)) : selected
FilteredUpgraded(minimal, selected, latest, current) ==
    IF minimal
    THEN Restrict(selected, {d \in DOMAIN selected : ~IsSatisfied(latest[d], current[d])})
    ELSE selected

\* what runLocal prints: printJson(output) or printUpgrades({ upgraded: filteredUpgraded })
Printed(o, output, filtered) ==
    IF o.json /\ ~o.deep THEN [how |-> "printJson", kind |-> output.kind, deps |-> output.deps]
    ELSE [how |-> "printUpgrades", kind |-> "upgraded", deps |-> filtered]

\* WritesPackageFile without the test of options.upgrade
WritesPackageFileAlways(numUpgraded, pkgFile, o) ==
    numUpgraded > 0 /\ pkgFile # NoFile

\* if (numUpgraded > 0) { if (pkgFile) { if (options.upgrade) writePackageFile(...) } }
WritesPackageFile(numUpgraded, pkgFile, o) ==
    numUpgraded > 0 /\ pkgFile # NoFile /\ Truthy(o.upgrade)

\* if (numUpgraded > 0) { ... if (options.errorLevel === 2) writePromise.then(programError) }
RaisesNotUpToDate(numUpgraded, o) == numUpgraded > 0 /\ o.errorLevel = 2

\* everything runLocal computes from the results of its awaits
RunLocalResult(o, current, latest) ==
    LET upgraded == UpgradePackageDefinitions(current, latest)
        data == UpgradePackageData(current, upgraded, latest, o)
        output == Output(o, data)
        filtered == FilteredUpgraded(o.minimal, data.selectedNewDependencies, latest, current)
    IN [upgraded |-> upgraded,
        selected |-> data.selectedNewDependencies,
        output |-> output,
        filtered |-> filtered,
        numUpgraded |-> Cardinality(DOMAIN filtered),
        printed |-> Printed(o, output, filtered)]

\* ------------------------------------------------------------------------
\* Promises
\* ------------------------------------------------------------------------
NoPromise == [state |-> "none", kind |-> "none", val |-> <<>>, err |-> NoError]
Pending == [state |-> "pending", kind |-> "none", val |-> <<>>, err |-> NoError]
Resolved(kind, val) == [state |-> "resolved", kind |-> kind, val |-> val, err |-> NoError]
Rejected(e) == [state |-> "rejected", kind |-> "none", val |-> <<>>, err |-> e]

\* SettleRun where run follows runUpgrades alone and the timeout promise is not raced
SettleRunIgnoringTimeout(run, p) ==
    IF p.err = ErrTimeout THEN run
    ELSE IF run.state = "pending" THEN p ELSE run

\* Promise.race([timeoutPromise, runUpgrades()]): the first promise to settle decides
SettleRun(run, p) == IF run.state = "pending" THEN p ELSE run

\* ------------------------------------------------------------------------
\* The run
\* ------------------------------------------------------------------------
NoLocal == [pkgFile |-> NoFile, current |-> <<>>, latest |-> <<>>, output |-> <<>>,
            numUpgraded |-> 0, write |-> "none", handler |-> "none"]

\* the options runLocal and findPackage are given: in deep mode a copy with packageFile set
PkgOptions ==
    IF options.deep /\ idx \in 1..Len(pkgs)
    THEN [options EXCEPT !.packageFile = GlobFile(pkgs[idx])]
    ELSE options

\* sequences without repetition over 1..MaxPkgs: what globby.sync can return
InjectiveSeqs(n) ==
    {q \in UNION {[1..k -> 1..MaxPkgs] : k \in 0..n} :
        \A i, j \in DOMAIN q : i # j => q[i] # q[j]}

\* the default file name matches at most one file, a given packageFile may be a pattern
GlobResults(o) == IF o.packageFile = NoFile THEN InjectiveSeqs(1) ELSE InjectiveSeqs(MaxPkgs)

\* { ...packages, [key]: value }
Put(obj, key, value) ==
    IF \E i \in DOMAIN obj : obj[i].key = key
    THEN [i \in DOMAIN obj |-> IF obj[i].key = key THEN [key |-> key, out |-> value] ELSE obj[i]]
    ELSE Append(obj, [key |-> key, out |-> value])

\* the declared dependencies of the package files of the run, and what the registry answers
CurrentCase == [d \in {1} |-> [op |-> "^", v |-> <<1, 0>>]]
LatestCases == {[d \in {1} |-> <<1, 0>>], [d \in {1} |-> <<1, 1>>], [d \in {1} |-> <<2, 0>>]}

\* HandlerReady where the handler is chained on a resolved promise, not on the write
HandlerReadyAtOnce(write) == TRUE

\* writePromise.then(() => programError(...)) runs once writePromise is fulfilled
HandlerReady(write) == write \in {"none", "done"}

\* await writePromise
AwaitReady(write) == write # "started"

\* the event loop is idle: every continuation waits for I/O (or the run is over)
AtWait ==
    \/ pc \in {"global_list", "global_fetch", "stdin", "read", "fetch", "done"}
    \/ pc = "await_write" /\ local.write = "started"

\* a macrotask (I/O completion, timer) can run
CanRunTask == proc = "running" /\ unhandled = NoError /\ AtWait

Goto(p) == pc' = p /\ UNCHANGED <<proc, upgradesPromise, runPromise, errors, timer>>

\* runUpgrades: clearTimeout(timeout); return analysis
ResolveUpgrades(kind, val) ==
    /\ pc' = "done"
    /\ timer' = IF timer = "armed" THEN "cleared" ELSE timer
    /\ upgradesPromise' = Resolved(kind, val)
    /\ runPromise' = SettleRun(runPromise, Resolved(kind, val))
    /\ UNCHANGED <<proc, errors>>

\* an exception or rejection propagates out of runUpgrades
RejectUpgrades(e) ==
    /\ pc' = "done"
    /\ upgradesPromise' = Rejected(e)
    /\ runPromise' = SettleRun(runPromise, Rejected(e))
    /\ errors' = IF runPromise' # runPromise THEN Append(errors, e) ELSE errors
    /\ UNCHANGED <<proc, timer>>

\* programError(options, message) inside runUpgrades
ProgramError(e) ==
    IF options.cli
    THEN /\ proc' = "exited"
         /\ errors' = Append(errors, e)
         /\ UNCHANGED <<pc, upgradesPromise, runPromise, timer>>
    ELSE RejectUpgrades(e)

\* run(): defaults, initOptions, up to the await of defaultPrefix
Run ==
    /\ pc = "start" /\ proc = "running"
    /\ IF InitError(input) # NoError
       THEN /\ errors' = Append(errors, InitError(input))
            /\ IF input.cli
               THEN proc' = "exited" /\ UNCHANGED <<pc, runPromise>>
               ELSE pc' = "done" /\ runPromise' = Rejected(InitError(input)) /\ UNCHANGED proc
            /\ UNCHANGED options
       ELSE /\ options' = InitOptions(input)
            /\ pc' = "prefix"
            /\ UNCHANGED <<proc, runPromise, errors>>
    /\ UNCHANGED <<input, timer, upgradesPromise, unhandled, pkgs, idx, analysis, local,
                   inLocal, started, reads, fetches, writes, printed, pool>>

\* packageManagers.npm.defaultPrefix rejects
PrefixFails ==
    /\ pc = "prefix" /\ proc = "running"
    /\ pc' = "done"
    /\ runPromise' = Rejected(ErrIO)
    /\ errors' = Append(errors, ErrIO)
    /\ UNCHANGED <<input, options, proc, timer, upgradesPromise, unhandled, pkgs, idx,
                   analysis, local, inLocal, started, reads, fetches, writes, printed, pool>>

\* run() after defaultPrefix: the timer, then runUpgrades() up to its branch
StartUpgrades ==
    /\ pc = "prefix" /\ proc = "running"
    /\ timer' = IF options.timeout THEN "armed" ELSE "unset"
    /\ upgradesPromise' = Pending
    /\ \E g \in GlobResults(options), same \in BOOLEAN :
        LET deep == options.deep \/ Len(g) > 1 IN
        /\ pkgs' = g
        /\ options' = [options EXCEPT
              !.deep = deep,
              !.packageFile = IF ~options.global /\ ~deep /\ Len(g) = 1 /\ ~same
                              THEN GlobFile(g[1]) ELSE @]
        /\ pc' = IF options.global THEN "global_list" ELSE IF deep THEN "reduce" ELSE "find"
    /\ fetches' = IF options.global THEN fetches + 1 ELSE fetches
    /\ idx' = 1
    /\ UNCHANGED <<input, proc, runPromise, unhandled, analysis, local, inLocal, started,
                   reads, writes, errors, printed, pool>>

\* deep mode: the reducer of pkgs[idx] resumes after the previous one, or the reduce is over
Reduce ==
    /\ pc = "reduce" /\ proc = "running"
    /\ IF idx > Len(pkgs)
       THEN /\ ResolveUpgrades("map", analysis)
            /\ UNCHANGED started
       ELSE /\ started' = Append(started, pkgs[idx])
            /\ Goto("find")
    /\ UNCHANGED <<input, options, unhandled, pkgs, idx, analysis, local, inLocal, reads,
                   fetches, writes, printed, pool>>

\* findUp.sync(pkgFileName), then getPackageDataFromFile
FindUp ==
    \E found \in BOOLEAN :
        IF found
        THEN /\ local' = [NoLocal EXCEPT !.pkgFile = FoundFile]
             /\ reads' = Append(reads, FoundFile)
             /\ Goto("read")
        ELSE /\ ProgramError(ErrNoPackage)
             /\ UNCHANGED <<local, reads>>

\* findPackage up to its first wait
Find ==
    /\ pc = "find" /\ proc = "running"
    /\ IF PkgOptions.packageData
       THEN /\ local' = NoLocal
            /\ Goto("parse")
            /\ UNCHANGED reads
       ELSE IF PkgOptions.packageFile # NoFile
       THEN /\ local' = [NoLocal EXCEPT !.pkgFile = PkgOptions.packageFile]
            /\ reads' = Append(reads, PkgOptions.packageFile)
            /\ Goto("read")
       ELSE \E isTTY \in BOOLEAN :
            IF isTTY THEN FindUp
            ELSE /\ Goto("stdin")
                 /\ UNCHANGED <<local, reads>>
    /\ UNCHANGED <<input, options, unhandled, pkgs, idx, analysis, inLocal, started,
                   fetches, writes, printed, pool>>

\* getstdin() returns
StdinDone ==
    /\ pc = "stdin" /\ CanRunTask
    /\ \E data \in BOOLEAN :
        IF data
        THEN /\ local' = NoLocal
             /\ Goto("parse")
             /\ UNCHANGED reads
        ELSE FindUp
    /\ UNCHANGED <<input, options, unhandled, pkgs, idx, analysis, inLocal, started,
                   fetches, writes, printed, pool>>

\* readPackageFile settles
ReadDone ==
    /\ pc = "read" /\ CanRunTask
    /\ \E ok \in BOOLEAN : IF ok THEN Goto("parse") ELSE RejectUpgrades(ErrIO)
    /\ UNCHANGED <<input, options, unhandled, pkgs, idx, analysis, local, inLocal, started,
                   reads, fetches, writes, printed, pool>>

\* runLocal up to the await of vm.upgradePackageDefinitions
Parse ==
    /\ pc = "parse" /\ proc = "running"
    /\ \E valid \in BOOLEAN :
        IF valid
        THEN /\ local' = [local EXCEPT !.current = CurrentCase]
             /\ inLocal' = inLocal + 1
             /\ fetches' = fetches + 1
             /\ Goto("fetch")
        ELSE /\ ProgramError(ErrInvalidPackage)
             /\ UNCHANGED <<local, inLocal, fetches>>
    /\ UNCHANGED <<input, options, unhandled, pkgs, idx, analysis, started, reads, writes,
                   printed, pool>>

\* vm.upgradePackageDefinitions settles
FetchDone ==
    /\ pc = "fetch" /\ CanRunTask
    /\ \E ok \in BOOLEAN :
        IF ok
        THEN /\ \E l \in LatestCases : local' = [local EXCEPT !.latest = l]
             /\ Goto("upgradeData")
             /\ UNCHANGED inLocal
        ELSE /\ RejectUpgrades(ErrIO)
             /\ inLocal' = inLocal - 1
             /\ UNCHANGED local
    /\ UNCHANGED <<input, options, unhandled, pkgs, idx, analysis, started, reads, fetches,
                   writes, printed, pool>>

\* vm.upgradePackageData returns (without prompts it takes no I/O): runLocal from the
\* output to the await of writePromise
UpgradeDataDone ==
    /\ pc = "upgradeData" /\ proc = "running"
    /\ LET r == RunLocalResult(PkgOptions, local.current, local.latest)
           w == WritesPackageFile(r.numUpgraded, local.pkgFile, PkgOptions)
       IN /\ printed' = Append(printed, r.printed)
          /\ local' = [local EXCEPT !.output = r.output,
                                    !.numUpgraded = r.numUpgraded,
                                    !.write = IF w THEN "started" ELSE "none",
                                    !.handler = IF RaisesNotUpToDate(r.numUpgraded, PkgOptions)
                                                THEN "armed" ELSE "none"]
          /\ writes' = IF w THEN Append(writes, [file |-> local.pkgFile,
                                                  numUpgraded |-> r.numUpgraded,
                                                  upgrade |-> PkgOptions.upgrade])
                       ELSE writes
    /\ Goto("await_write")
    /\ UNCHANGED <<input, options, unhandled, pkgs, idx, analysis, inLocal, started, reads,
                   fetches, pool>>

\* writePackageFile settles
WriteDone ==
    /\ local.write = "started" /\ CanRunTask
    /\ \E ok \in BOOLEAN : local' = [local EXCEPT !.write = IF ok THEN "done" ELSE "failed"]
    /\ UNCHANGED <<input, options, proc, pc, timer, upgradesPromise, runPromise, unhandled,
                   pkgs, idx, analysis, inLocal, started, reads, fetches, writes, errors,
                   printed, pool>>

\* the callback of writePromise.then at errorLevel 2: programError('Dependencies not up-to-date')
NotUpToDateHandler ==
    /\ pc = "await_write" /\ proc = "running"
    /\ local.handler = "armed" /\ HandlerReady(local.write)
    /\ local' = [local EXCEPT !.handler = "fired"]
    /\ IF options.cli
       THEN proc' = "exited" /\ errors' = Append(errors, ErrNotUpToDate) /\ UNCHANGED unhandled
       ELSE unhandled' = ErrNotUpToDate /\ UNCHANGED <<proc, errors>>
    /\ UNCHANGED <<input, options, pc, timer, upgradesPromise, runPromise, pkgs, idx,
                   analysis, inLocal, started, reads, fetches, writes, printed, pool>>

\* await writePromise resumes
AfterWrite ==
    /\ pc = "await_write" /\ proc = "running"
    /\ AwaitReady(local.write)
    /\ ~(local.handler = "armed" /\ HandlerReady(local.write))
    /\ IF local.write = "failed"
       THEN /\ RejectUpgrades(ErrIO)
            /\ inLocal' = inLocal - 1
            /\ unhandled' = IF local.handler = "armed" THEN ErrIO ELSE unhandled
       ELSE /\ Goto("return")
            /\ UNCHANGED <<inLocal, unhandled>>
    /\ UNCHANGED <<input, options, pkgs, idx, analysis, local, started, reads, fetches,
                   writes, printed, pool>>

\* return output: back in runUpgrades
Return ==
    /\ pc = "return" /\ proc = "running"
    /\ inLocal' = inLocal - 1
    /\ local' = NoLocal
    /\ IF options.deep
       THEN /\ analysis' = Put(analysis, local.pkgFile, local.output)
            /\ idx' = idx + 1
            /\ Goto("reduce")
       ELSE /\ ResolveUpgrades("output", <<[key |-> local.pkgFile, out |-> local.output]>>)
            /\ UNCHANGED <<analysis, idx>>
    /\ UNCHANGED <<input, options, unhandled, pkgs, started, reads, fetches, writes,
                   printed, pool>>

\* runGlobal: vm.getInstalledPackages settles
GlobalListDone ==
    /\ pc = "global_list" /\ CanRunTask
    /\ \E ok \in BOOLEAN :
        IF ok
        THEN /\ fetches' = fetches + 1
             /\ Goto("global_fetch")
        ELSE /\ RejectUpgrades(ErrIO)
             /\ UNCHANGED fetches
    /\ UNCHANGED <<input, options, unhandled, pkgs, idx, analysis, local, inLocal, started,
                   reads, writes, printed, pool>>

\* runGlobal: vm.upgradePackageDefinitions settles, to the end of runGlobal
GlobalFetchDone ==
    /\ pc = "global_fetch" /\ CanRunTask
    /\ \E ok \in BOOLEAN, l \in LatestCases :
        IF ok
        THEN LET upgraded == UpgradePackageDefinitions(CurrentCase, l) IN
             /\ printed' = Append(printed, [how |-> "printUpgrades", kind |-> "upgraded",
                                            deps |-> upgraded])
             /\ IF options.cli /\ options.errorLevel = 2 /\ Cardinality(DOMAIN upgraded) > 0
                THEN /\ proc' = "exited"
                     /\ errors' = Append(errors, ErrExit)
                     /\ UNCHANGED <<pc, upgradesPromise, runPromise, timer>>
                ELSE ResolveUpgrades("void", <<>>)
        ELSE /\ RejectUpgrades(ErrIO)
             /\ UNCHANGED printed
    /\ UNCHANGED <<input, options, unhandled, pkgs, idx, analysis, local, inLocal, started,
                   reads, fetches, writes, pool>>

\* the callback of setTimeout: reject(error), then programError
TimerFire ==
    /\ timer = "armed" /\ CanRunTask
    /\ timer' = "fired"
    /\ runPromise' = SettleRun(runPromise, Rejected(ErrTimeout))
    /\ IF options.cli
       THEN proc' = "exited" /\ errors' = Append(errors, ErrTimeout)
       ELSE /\ errors' = IF runPromise' # runPromise THEN Append(errors, ErrTimeout) ELSE errors
            /\ UNCHANGED proc
    /\ UNCHANGED <<input, options, pc, upgradesPromise, unhandled, pkgs, idx, analysis,
                   local, inLocal, started, reads, fetches, writes, printed, pool>>

\* process.on('unhandledRejection', err => { throw err })
Crash ==
    /\ proc = "running" /\ unhandled # NoError /\ AtWait
    /\ proc' = "crashed"
    /\ errors' = Append(errors, unhandled)
    /\ UNCHANGED <<input, options, pc, timer, upgradesPromise, runPromise, unhandled, pkgs,
                   idx, analysis, local, inLocal, started, reads, fetches, writes, printed,
                   pool>>

NoPool == [names |-> 0, limit |-> 0, next |-> 0, inFlight |-> {}, slots |-> <<>>]

\* the options a run is started with
RunInputs ==
    {[BaseInput EXCEPT !.cli = c, !.target = t, !.greatest = g, !.newest = n,
                       !.packageFile = f, !.deep = d, !.packageData = pd, !.global = gl,
                       !.timeout = to, !.upgrade = u, !.errorLevel = e, !.minimal = m,
                       !.jsonUpgraded = ~c] :
        c \in BOOLEAN, t \in {Undefined, "minor"}, g \in BOOLEAN, n \in BOOLEAN,
        f \in {NoFile, OptionFile}, d \in BOOLEAN, pd \in BOOLEAN, gl \in BOOLEAN,
        to \in BOOLEAN, u \in {Undefined, "true"}, e \in {1, 2}, m \in BOOLEAN}

Init ==
    /\ input \in RunInputs
    /\ options = input
    /\ proc = "running"
    /\ pc = "start"
    /\ timer = "unset"
    /\ upgradesPromise = NoPromise
    /\ runPromise = Pending
    /\ unhandled = NoError
    /\ pkgs = <<>>
    /\ idx = 1
    /\ analysis = <<>>
    /\ local = NoLocal
    /\ inLocal = 0
    /\ started = <<>>
    /\ reads = <<>>
    /\ fetches = 0
    /\ writes = <<>>
    /\ errors = <<>>
    /\ printed = <<>>
    /\ pool = NoPool

Next ==
    \/ Run \/ PrefixFails \/ StartUpgrades \/ Reduce \/ Find \/ StdinDone \/ ReadDone
    \/ Parse \/ FetchDone \/ UpgradeDataDone \/ WriteDone \/ NotUpToDateHandler
    \/ AfterWrite \/ Return \/ GlobalListDone \/ GlobalFetchDone \/ TimerFire \/ Crash

Spec == Init /\ [][Next]_vars

\* ------------------------------------------------------------------------
\* Properties of the run
\* ------------------------------------------------------------------------
\* two of the three ways to name a target policy are used together
PolicyConflict(o) ==
    \/ o.target # Undefined /\ o.greatest
    \/ o.target # Undefined /\ o.newest
    \/ o.greatest /\ o.newest

Occurrences(q, x) == Cardinality({i \in DOMAIN q : q[i] = x})

\* C1: when two mutually exclusive target policies are requested together, run fails
\* with a fatal policy error raised by initOptions (the promise of run rejects, or the
\* process exits in CLI mode), and no package file is read and no metadata fetch
\* (vm.getInstalledPackages, vm.upgradePackageDefinitions) is begun.
C1_PolicyConflictFatal ==
    PolicyConflict(input) =>
        /\ reads = <<>> /\ fetches = 0 /\ writes = <<>>
        /\ pc # "start" =>
            /\ Len(errors) = 1 /\ errors[1] \in PolicyErrors
            /\ upgradesPromise = NoPromise
            /\ IF input.cli THEN proc = "exited" ELSE runPromise = Rejected(errors[1])

C1_Witness ==
    /\ input.greatest /\ input.newest /\ input.target = Undefined /\ ~input.cli
    /\ runPromise = Rejected(ErrGreatestNewest)

\* C2: when the timer fires while runUpgrades is still pending, the timeout error is the
\* one fatal error of the run: the promise of run rejects with it (the process exits in
\* CLI mode) and keeps that outcome, the error is surfaced once and is never the outcome
\* of runUpgrades or of a package; without a timeout the outcome of run is the outcome
\* of runUpgrades.
C2_TimeoutIsOneFatalError ==
    /\ [][(timer = "armed" /\ timer' = "fired" /\ upgradesPromise.state = "pending") =>
            /\ errors' = <<ErrTimeout>>
            /\ IF input.cli THEN proc' = "exited" ELSE runPromise' = Rejected(ErrTimeout)]_vars
    /\ [][runPromise = Rejected(ErrTimeout) => runPromise' = runPromise]_vars
    /\ [](/\ Occurrences(errors, ErrTimeout) <= 1
          /\ upgradesPromise.err # ErrTimeout
          /\ (~input.timeout /\ upgradesPromise.state # "none" => runPromise = upgradesPromise))

C2_Witness ==
    /\ ~input.cli /\ timer = "fired" /\ upgradesPromise.state = "pending"
    /\ runPromise = Rejected(ErrTimeout) /\ errors = <<ErrTimeout>>

\* C3: once the timeout has fired and decided the outcome of run, the work in flight has
\* no further observable effect: the outcome stays, no package file is written, no
\* further error is raised.
C3_WorkAbandoned ==
    [][(timer = "fired" /\ runPromise = Rejected(ErrTimeout)) =>
          /\ runPromise' = runPromise
          /\ writes' = writes
          /\ errors' = errors
          /\ unhandled' = unhandled]_vars

\* C8: a package file is written only in a local run, with at least one dependency
\* reported as upgraded, a known package file path and the upgrade option set; never in
\* global mode, nor when the package data comes from packageData or stdin.
C8_WriteOnlyWhenUpgrading ==
    /\ \A i \in DOMAIN writes :
          /\ writes[i].file # NoFile
          /\ writes[i].numUpgraded > 0
          /\ Truthy(writes[i].upgrade)
    /\ local.write # "none" =>
          /\ local.pkgFile # NoFile
          /\ local.numUpgraded > 0
          /\ Truthy(PkgOptions.upgrade)
          /\ ~options.global
    /\ (options.global \/ input.packageData) => writes = <<>>

C8_Witness == writes # <<>> /\ local.write = "done"

NotUpToDateRaised ==
    unhandled = ErrNotUpToDate \/ \E i \in DOMAIN errors : errors[i] = ErrNotUpToDate

\* C9: the 'Dependencies not up-to-date' error is raised, and runLocal settles, only
\* when no package file write is still in flight.
C9_ErrorAfterWrite ==
    [][((~NotUpToDateRaised /\ NotUpToDateRaised') \/ inLocal' < inLocal) =>
          local.write # "started"]_vars

C9_Witness == NotUpToDateRaised /\ local.write = "done" /\ local.handler = "fired"

\* C10: in deep mode the package files are processed one after another in the order
\* globby returned them, at most one runLocal is in progress, and the result mapping
\* has one entry per package file, in that order.
C10_DeepSequential ==
    /\ inLocal <= 1
    /\ Len(started) <= Len(pkgs) /\ \A i \in DOMAIN started : started[i] = pkgs[i]
    /\ (pc \in {"reduce", "find", "stdin", "read", "parse"} => inLocal = 0)
    /\ (upgradesPromise.state = "resolved" /\ upgradesPromise.kind = "map") =>
          /\ Len(upgradesPromise.val) = Len(pkgs)
          /\ \A i \in DOMAIN upgradesPromise.val :
                upgradesPromise.val[i].key # NoFile =>
                    upgradesPromise.val[i].key = GlobFile(pkgs[i])

\* ------------------------------------------------------------------------
\* initOptions alone, over every combination of the options it reads
\* ------------------------------------------------------------------------
OptionInputs ==
    {[BaseInput EXCEPT !.cli = c, !.target = t, !.greatest = g, !.newest = n,
                       !.semverLevel = sl, !.pre = p, !.filterMismatch = fm,
                       !.packageFile = f, !.deep = d, !.interactive = i, !.upgrade = u] :
        c \in BOOLEAN, t \in TargetInputs, g \in BOOLEAN, n \in BOOLEAN,
        sl \in SemverLevelInputs, p \in JsValues, fm \in BOOLEAN,
        f \in {NoFile, OptionFile}, d \in BOOLEAN, i \in BOOLEAN,
        u \in {Undefined, "true", "false"}}

InitOptionsOnly ==
    /\ input \in OptionInputs
    /\ options = input
    /\ proc = "running"
    /\ pc = "start"
    /\ timer = "unset"
    /\ upgradesPromise = NoPromise
    /\ runPromise = Pending
    /\ unhandled = NoError
    /\ pkgs = <<>>
    /\ idx = 1
    /\ analysis = <<>>
    /\ local = NoLocal
    /\ inLocal = 0
    /\ started = <<>>
    /\ reads = <<>>
    /\ fetches = 0
    /\ writes = <<>>
    /\ errors = <<>>
    /\ printed = <<>>
    /\ pool = NoPool

SpecOptions == InitOptionsOnly /\ [][Run]_vars

\* initOptions returned: the input was accepted
Accepted == pc = "prefix"

\* the policies an input asks for, through any of the four options
RequestedPolicies(o) ==
    (IF o.newest THEN {"newest"} ELSE {})
    \cup (IF o.greatest THEN {"greatest"} ELSE {})
    \cup (IF o.target # Undefined THEN {o.target} ELSE {})
    \cup (IF o.semverLevel # Undefined THEN {o.semverLevel} ELSE {})

\* the precedence newest, greatest, target, semverLevel, 'latest'
TargetByPrecedence(o) ==
    CASE o.newest -> "newest"
      [] ~o.newest /\ o.greatest -> "greatest"
      [] ~o.newest /\ ~o.greatest /\ o.target # Undefined -> o.target
      [] ~o.newest /\ ~o.greatest /\ o.target = Undefined /\ o.semverLevel # Undefined
           -> o.semverLevel
      [] OTHER -> "latest"

\* C5 as stated: every accepted input resolves to one target by the precedence, the
\* target is a member of the policy set, and the input requests no two different
\* policies.
C5_OneValidPolicy ==
    Accepted =>
        /\ options.target = TargetByPrecedence(input)
        /\ options.target \in PolicySet
        /\ Cardinality(RequestedPolicies(input)) <= 1

\* C5 amended: every accepted input resolves to one target by the precedence; the
\* target is a member of the policy set unless it is the caller's own target or
\* semverLevel string, which is not validated; no two of target, greatest and newest
\* are set, while semverLevel may be set beside any of them.
C5_OneTargetByPrecedence ==
    Accepted =>
        /\ options.target = TargetByPrecedence(input)
        /\ (options.target \in PolicySet \/ options.target \in {input.target, input.semverLevel})
        /\ Cardinality({k \in {"target", "greatest", "newest"} :
                           \/ k = "target" /\ input.target # Undefined
                           \/ k = "greatest" /\ input.greatest
                           \/ k = "newest" /\ input.newest}) <= 1

C5_Witness ==
    /\ Accepted /\ input.target = "minor" /\ input.semverLevel = "major"
    /\ options.target = "minor"

\* C6 as stated: the resolved pre is true only if the caller set pre to a truthy value,
\* and an explicit pre = false is never overridden.
C6_PreOnlyExplicit ==
    Accepted =>
        /\ (options.pre = "true" => Truthy(input.pre))
        /\ (input.pre = "false" => options.pre = "false")

\* C6 amended: the resolved pre is true only if the caller set pre to a truthy value,
\* or left pre unset (undefined or null) while the resolved target is newest or
\* greatest; an explicit pre = false is never overridden, whatever the target.
C6_PreExplicitOrAuto ==
    Accepted =>
        /\ (options.pre = "true" =>
              \/ Truthy(input.pre)
              \/ input.pre \in {Undefined, Null} /\ options.target \in {"newest", "greatest"})
        /\ (input.pre = "false" => options.pre = "false")

C6_Witness == Accepted /\ input.pre = "false" /\ input.newest /\ options.pre = "false"

\* ------------------------------------------------------------------------
\* runLocal alone, over every declared range and registry answer
\* ------------------------------------------------------------------------
LocalOptions ==
    {[BaseInput EXCEPT !.minimal = m, !.jsonAll = ja, !.jsonDeps = jd,
                       !.jsonUpgraded = ju, !.json = ja \/ jd \/ ju, !.deep = d] :
        m \in BOOLEAN, ja \in BOOLEAN, jd \in BOOLEAN, ju \in BOOLEAN, d \in BOOLEAN}

RunLocalOnly ==
    /\ input = BaseInput
    /\ options \in LocalOptions
    /\ proc = "running"
    /\ pc = "fetch"
    /\ timer = "unset"
    /\ upgradesPromise = Pending
    /\ runPromise = Pending
    /\ unhandled = NoError
    /\ pkgs = <<>>
    /\ idx = 1
    /\ analysis = <<>>
    /\ \E c \in [Deps -> Ranges] : local = [NoLocal EXCEPT !.pkgFile = OptionFile, !.current = c]
    /\ inLocal = 1
    /\ started = <<>>
    /\ reads = <<OptionFile>>
    /\ fetches = 1
    /\ writes = <<>>
    /\ errors = <<>>
    /\ printed = <<>>
    /\ pool = NoPool

\* vm.upgradePackageDefinitions resolves with a version for some of the names
FetchResolves ==
    /\ pc = "fetch" /\ CanRunTask
    /\ \E names \in SUBSET Deps : \E l \in [names -> Versions] :
          local' = [local EXCEPT !.latest = l]
    /\ Goto("upgradeData")
    /\ UNCHANGED <<input, options, unhandled, pkgs, idx, analysis, inLocal, started, reads,
                   fetches, writes, printed, pool>>

SpecLocal == RunLocalOnly /\ [][FetchResolves \/ UpgradeDataDone]_vars

\* the dependencies whose declared range does not admit the candidate version
Unsatisfied(current, latest) ==
    {d \in DOMAIN latest : ~Admits(current[d], latest[d])}

\* the dependencies whose rewritten range differs from the declared range
Differing(current, latest) ==
    {d \in DOMAIN latest : [op |-> current[d].op, v |-> latest[d]] # current[d]}

\* the upgraded mapping the options call for
ExpectedUpgraded(o, current, latest) ==
    LET names == IF o.minimal THEN Unsatisfied(current, latest)
                 ELSE Differing(current, latest)
    IN [d \in names |-> [op |-> current[d].op, v |-> latest[d]]]

PoolInit ==
    /\ input = BaseInput
    /\ options = BaseInput
    /\ proc = "running"
    /\ pc = "fetch"
    /\ timer = "unset"
    /\ upgradesPromise = Pending
    /\ runPromise = Pending
    /\ unhandled = NoError
    /\ pkgs = <<>>
    /\ idx = 1
    /\ analysis = <<>>
    /\ local = NoLocal
    /\ inLocal = 1
    /\ started = <<>>
    /\ reads = <<>>
    /\ fetches = 1
    /\ writes = <<>>
    /\ errors = <<>>
    /\ printed = <<>>
    /\ \E n \in 0..MaxNames, l \in 1..MaxLimit :
          pool = [names |-> n, limit |-> l, next |-> 1, inFlight |-> {},
                  slots |-> [i \in 1..n |-> "empty"]]

\* CanStartFetch where the pool starts every fetch at once
CanStartFetchUnbounded(p) == p.next <= p.names

\* a fetch is started only while fewer than the limit are in flight
CanStartFetch(p) == p.next <= p.names /\ Cardinality(p.inFlight) < p.limit

\* the pool calls fetchOne for the next name
PoolStart ==
    /\ CanStartFetch(pool)
    /\ pool' = [pool EXCEPT !.inFlight = @ \cup {pool.next}, !.next = @ + 1]
    /\ UNCHANGED <<input, options, proc, pc, timer, upgradesPromise, runPromise, unhandled,
                   pkgs, idx, analysis, local, inLocal, started, reads, fetches, writes,
                   errors, printed>>

\* a fetch settles: its metadata or its error goes into the slot of its name
PoolFinish ==
    /\ \E i \in pool.inFlight, r \in {"metadata", "error"} :
          pool' = [pool EXCEPT !.inFlight = @ \ {i}, !.slots[i] = r]
    /\ UNCHANGED <<input, options, proc, pc, timer, upgradesPromise, runPromise, unhandled,
                   pkgs, idx, analysis, local, inLocal, started, reads, fetches, writes,
                   errors, printed>>

SpecPool == PoolInit /\ [][PoolStart \/ PoolFinish]_vars

\* C7: the number of metadata fetches in flight never exceeds the concurrency limit,
\* however many names are requested.
C7_BoundedInFlight == Cardinality(pool.inFlight) <= pool.limit

C7_Witness ==
    /\ pool.names > pool.limit
    /\ Cardinality(pool.inFlight) = pool.limit
    /\ pool.next <= pool.names

====
